---- MODULE Spec2Model ----
(***************************************************************************)
(* Session lifecycle of functions/sessionCollector.js.                     *)
(*                                                                         *)
(* exports.handler is invoked once per HTTP request by a stateless,        *)
(* potentially parallel runtime.  Every `await` on the document store is   *)
(* a point where invocations interleave, so one invocation is a sequence   *)
(* of atomic steps, each ending with one store call: Accept (parse,        *)
(* validate, the read of line 99 and the branch), StartNew (line 127) or   *)
(* AppendData (lines 138/143), EndRead (line 171), EndUpdate (line 191),   *)
(* EndGet (line 195), and Finish (the return).  One website and the        *)
(* sessions sub-collection of one fingerprint document are modelled; the   *)
(* store stamps every write with a fresh server timestamp.                 *)
(***************************************************************************)
EXTENDS Integers, Sequences, FiniteSets, TLC

\* ------------------------------------------------------------------ bounds
\* NumProcs: invocations that can be in flight at once.  MaxClock: the store
\* accepts writes until its clock reads MaxClock.
NumProcs == 2
MaxClock == 4
MaxRequests == 3
\* The fingerprints normalization is applied to under SpecNorm: the integers
\* of magnitude up to MaxFpNumber and the strings of up to MaxFpLen characters.
MaxFpNumber == 42
MaxFpLen == 4

Procs == 1..NumProcs

\* ------------------------------------------------------------ JSON values
\* A JSON value of the request body: its JavaScript type, the literal text
\* of a scalar, the items of an array.  undefined is a field the body lacks.
Undefined == [type |-> "undefined", text |-> "", items |-> <<>>]
JsonNull == [type |-> "null", text |-> "null", items |-> <<>>]
Str(s) == [type |-> "string", text |-> s, items |-> <<>>]
Num(s) == [type |-> "number", text |-> s, items |-> <<>>]
Bool(s) == [type |-> "boolean", text |-> s, items |-> <<>>]
Arr(xs) == [type |-> "array", text |-> "", items |-> xs]

\* JavaScript truthiness, as `data &&` and `!action` evaluate it.
Falsy(v) ==
    \/ v.type \in {"undefined", "null"}
    \/ v.type = "boolean" /\ v.text = "false"
    \/ v.type = "number" /\ v.text = "0"
    \/ v.type = "string" /\ v.text = ""

IsArray(v) == v.type = "array"

\* The values of `data` and `action` the requests are drawn from.
DataValues ==
    { Undefined, Num("0"), Str("click"),
      Arr(<<Str("scroll"), Str("hover")>>), Arr(<<>>) }

ActionValues == { Undefined, Str("append"), Str("end"), Str("pause") }

\* ----------------------------------------------------------- fingerprints
\* A string is the sequence of its characters; a number is an integer.
Whitespace == {" ", "\t"}

Digit(d) == CASE d = 0 -> "0" [] d = 1 -> "1" [] d = 2 -> "2" [] d = 3 -> "3"
              [] d = 4 -> "4" [] d = 5 -> "5" [] d = 6 -> "6" [] d = 7 -> "7"
              [] d = 8 -> "8" [] d = 9 -> "9"

RECURSIVE NumberToString(_)
NumberToString(n) ==
    IF n < 0 THEN <<"-">> \o NumberToString(0 - n)
    ELSE IF n < 10 THEN <<Digit(n)>>
    ELSE NumberToString(n \div 10) \o <<Digit(n % 10)>>

RECURSIVE TrimStart(_)
TrimStart(s) ==
    IF s # <<>> /\ Head(s) \in Whitespace THEN TrimStart(Tail(s)) ELSE s

RECURSIVE TrimEnd(_)
TrimEnd(s) ==
    IF s # <<>> /\ s[Len(s)] \in Whitespace
    THEN TrimEnd(SubSeq(s, 1, Len(s) - 1)) ELSE s

\* Mutant of Trim: trimStart in place of trim.
TrimStartOnly(s) == TrimStart(s)

Trim(s) == TrimEnd(TrimStart(s))

FpNumber(n) == [type |-> "number", num |-> n, chars |-> <<>>]
FpString(s) == [type |-> "string", num |-> 0, chars |-> s]
FpOther == [type |-> "other", num |-> 0, chars |-> <<>>]
NoFp == [type |-> "none", num |-> 0, chars |-> <<>>]

FingerprintValues ==
    { FpNumber(42), FpString(<<"4", "2">>), FpString(<<" ", "4", "2", " ">>),
      FpString(<<" ", "\t">>), FpString(<<>>), FpOther }

FpAlphabet == {" ", "-", "0", "2", "4"}

NormInputs ==
    {FpNumber(n) : n \in (0 - MaxFpNumber)..MaxFpNumber}
    \cup {FpString(c) : c \in UNION {[1..k -> FpAlphabet] : k \in 0..MaxFpLen}}
    \cup {FpOther}

\* Lines 72-75: a number becomes its decimal string, a string is kept.
Coerce(fp) == IF fp.type = "number" THEN NumberToString(fp.num) ELSE fp.chars

\* Mutant of FingerprintError: emptiness is tested before the trim.
FingerprintErrorUntrimmed(fp) ==
    IF fp.type \notin {"number", "string"}
    THEN "Fingerprint must be a string or number."
    ELSE IF Coerce(fp) = <<>> THEN "Fingerprint missing." ELSE ""

\* Lines 72-92: the rejection of the fingerprint, "" when it is accepted.
FingerprintError(fp) ==
    IF fp.type \notin {"number", "string"}
    THEN "Fingerprint must be a string or number."
    ELSE IF Trim(Coerce(fp)) = <<>> THEN "Fingerprint missing." ELSE ""

Normalize(fp) == Trim(Coerce(fp))

\* ------------------------------------------------------------------ store
\* endedAt: null of an open Session Record.  Timestamps are >= 1.
Null == 0

VARIABLES
    sessions,           \* the Session Records of the store, in creation order
    clock,              \* the last timestamp the store's server clock assigned
    nreq,               \* requests received so far, counted under Spec
    pc,                 \* pc[p]: where invocation p stands
    req,                \* req[p]: fingerprint (normalized), data, action
    sessionRef,         \* sessionRef[p]: index of the record p will write, or 0
    newSessionStarted,  \* newSessionStarted[p]
    resp,               \* resp[p]: the response p returns
    pre,                \* pre[p]: the store when p's request was received (history,
                        \* kept when requests are handled one at a time)
    fpIn,               \* fpIn[p]: the body's fingerprint as received (history,
                        \* kept when requests are handled one at a time)
    serial,             \* history: no two invocations have overlapped so far
    reads,              \* reads[p]: store reads p's request has made
    writes              \* writes[p]: store writes p's request has made

vars == <<sessions, clock, nreq, pc, req, sessionRef, newSessionStarted,
          resp, pre, fpIn, serial, reads, writes>>

NoReq == [fingerprint |-> <<>>, data |-> Undefined, action |-> Undefined]

NoResp == [statusCode |-> 0, error |-> "", message |-> "", success |-> FALSE,
           newSessionStarted |-> FALSE, fingerprint |-> <<>>, session |-> <<>>]

Response(code) == [NoResp EXCEPT !.statusCode = code]

\* The records of one Fingerprint Entry's `sessions` sub-collection.
SessionsOf(store, fp) == { i \in 1..Len(store) : store[i].fingerprint = fp }

\* Mutant of Latest: the order is ascending.
LatestAscending(store, fp) ==
    IF SessionsOf(store, fp) = {} THEN 0
    ELSE CHOOSE i \in SessionsOf(store, fp) :
            \A j \in SessionsOf(store, fp) : store[i].startedAt <= store[j].startedAt

\* Lines 99 and 171: orderBy('startedAt', 'desc').limit(1); 0 is an empty
\* snapshot.
Latest(store, fp) ==
    IF SessionsOf(store, fp) = {} THEN 0
    ELSE CHOOSE i \in SessionsOf(store, fp) :
            \A j \in SessionsOf(store, fp) : store[j].startedAt <= store[i].startedAt

\* Mutants of HasEnded: the test inverted; the test dropped.
HasEndedInverted(rec) == rec.endedAt = Null

HasEndedNever(rec) == FALSE

\* Lines 114 and 181: endedAt !== null && endedAt !== undefined.
HasEnded(rec) == rec.endedAt # Null

\* FieldValue.arrayUnion: each element not already in the array is added at
\* its end, in argument order.
RECURSIVE ArrayUnion(_, _)
ArrayUnion(arr, elems) ==
    IF elems = <<>> THEN arr
    ELSE ArrayUnion(IF \E i \in 1..Len(arr) : arr[i] = Head(elems)
                    THEN arr ELSE Append(arr, Head(elems)),
                    Tail(elems))

\* Lines 137-147: the elements handed to arrayUnion.
UnionArgs(data) == IF IsArray(data) THEN data.items ELSE <<data>>

\* Mutant of SeedBatches: data is wrapped without the Array.isArray test.
SeedBatchesWrapped(data) == <<data>>

\* Line 133: Array.isArray(data) ? data : [data].
SeedBatches(data) == IF IsArray(data) THEN data.items ELSE <<data>>

\* Mutant of IsAppend: data !== undefined in place of the truthiness test.
IsAppendAnyData(data, action) ==
    data # Undefined /\ (Falsy(action) \/ action = Str("append"))

\* Line 105: data && (!action || action === 'append').
IsAppend(data, action) ==
    ~Falsy(data) /\ (Falsy(action) \/ action = Str("append"))

\* Mutant of IsEnd: every action other than "append" closes.
IsEndAnyOtherAction(data, action) ==
    ~Falsy(action) /\ action # Str("append")

\* Mutant of IsEnd: the close branch is entered only without data.
IsEndWithoutData(data, action) == Falsy(data) /\ action = Str("end")

\* Line 169: action === 'end', reached when line 105 was false.
IsEnd(data, action) == ~IsAppend(data, action) /\ action = Str("end")

Init ==
    /\ sessions = <<>>
    /\ clock = 0
    /\ nreq = 0
    /\ pc = [p \in Procs |-> "idle"]
    /\ req = [p \in Procs |-> NoReq]
    /\ sessionRef = [p \in Procs |-> 0]
    /\ newSessionStarted = [p \in Procs |-> FALSE]
    /\ resp = [p \in Procs |-> NoResp]
    /\ pre = [p \in Procs |-> <<>>]
    /\ fpIn = [p \in Procs |-> NoFp]
    /\ serial = TRUE
    /\ reads = [p \in Procs |-> 0]
    /\ writes = [p \in Procs |-> 0]

\* Mutant of NewSession: endedAt is stamped at creation.
NewSessionEnded(fp, data, now) ==
    [fingerprint |-> fp, startedAt |-> now, lastActivity |-> now,
     endedAt |-> now, dataBatches |-> SeedBatches(data)]

\* Lines 127-134: the document sessionRef.set creates.
NewSession(fp, data, now) ==
    [fingerprint |-> fp, startedAt |-> now, lastActivity |-> now,
     endedAt |-> Null, dataBatches |-> SeedBatches(data)]

\* Mutant of Appended: the append stamps startedAt as well.
AppendedRestamped(rec, data, now) ==
    [rec EXCEPT !.startedAt = now, !.lastActivity = now,
                !.dataBatches = ArrayUnion(rec.dataBatches, UnionArgs(data))]

\* Lines 138-146: the fields sessionRef.update changes on an append.
Appended(rec, data, now) ==
    [rec EXCEPT !.lastActivity = now,
                !.dataBatches = ArrayUnion(rec.dataBatches, UnionArgs(data))]

\* Mutant of Ended: the close leaves lastActivity alone.
EndedKeepsActivity(rec, now) == [rec EXCEPT !.endedAt = now]

\* Lines 191-194: the fields sessionRef.update changes on a close.
Ended(rec, now) == [rec EXCEPT !.endedAt = now, !.lastActivity = now]

\* Mutant of MustStartNew: only an empty snapshot starts a session.
MustStartNewOnlyFirst(store, snap) == snap = 0

\* Lines 110-116: the latest session cannot be continued.
MustStartNew(store, snap) == snap = 0 \/ HasEnded(store[snap])

\* Line 140: arrayUnion(...data) with no element throws before the update.
UnionThrows(data) == IsArray(data) /\ data.items = <<>>

\* Lines 77-81 and 87-91: the rejection of a fingerprint.
FingerprintResponse(fp) == [Response(400) EXCEPT !.error = FingerprintError(fp)]

\* Lines 173-177.
NoActiveSession ==
    [Response(404) EXCEPT !.error = "No active session found for this fingerprint."]

\* Lines 182-186.
SessionAlreadyEnded ==
    [Response(400) EXCEPT !.error = "Session has already ended."]

\* Lines 196-203: the close response carries the record read back.
SessionEnded(rec) ==
    [Response(200) EXCEPT !.message = "Session ended. Data stored in Firestore.",
                          !.session = <<rec>>]

\* Lines 207-211: the default response.
NotUpdated(fp) ==
    [Response(200) EXCEPT !.message = "Session not updated.", !.fingerprint = fp]

\* Lines 213-222: the catch-all response.
InternalError == [Response(500) EXCEPT !.error = "Internal Server Error"]

\* No other invocation is between its receipt and its return.
Quiet(p) == \A q \in Procs \ {p} : pc[q] = "idle"

\* Lines 72-92: the request is answered 400 before any store access.
Reject(p, fp) ==
    /\ req' = [req EXCEPT ![p] = NoReq]
    /\ resp' = [resp EXCEPT ![p] = FingerprintResponse(fp)]
    /\ pc' = [pc EXCEPT ![p] = "done"]
    /\ reads' = [reads EXCEPT ![p] = 0]
    /\ UNCHANGED <<sessionRef, newSessionStarted>>

\* Lines 99-121, 169, 206-211: the latest-session read, then the branch.
ReadLatest(p, r) ==
    /\ req' = [req EXCEPT ![p] = r]
    /\ reads' = [reads EXCEPT ![p] = 1]
    /\ LET snap == Latest(sessions, r.fingerprint)
       IN  IF IsAppend(r.data, r.action)
           THEN IF MustStartNew(sessions, snap)
                THEN /\ newSessionStarted' = [newSessionStarted EXCEPT ![p] = TRUE]
                     /\ pc' = [pc EXCEPT ![p] = "set"]
                     /\ resp' = [resp EXCEPT ![p] = NoResp]
                     /\ UNCHANGED sessionRef
                ELSE /\ sessionRef' = [sessionRef EXCEPT ![p] = snap]
                     /\ IF UnionThrows(r.data)
                        THEN /\ resp' = [resp EXCEPT ![p] = InternalError]
                             /\ pc' = [pc EXCEPT ![p] = "done"]
                        ELSE /\ resp' = [resp EXCEPT ![p] = NoResp]
                             /\ pc' = [pc EXCEPT ![p] = "update"]
                     /\ UNCHANGED newSessionStarted
           ELSE IF IsEnd(r.data, r.action)
           THEN /\ pc' = [pc EXCEPT ![p] = "endRead"]
                /\ resp' = [resp EXCEPT ![p] = NoResp]
                /\ UNCHANGED <<sessionRef, newSessionStarted>>
           ELSE /\ resp' = [resp EXCEPT ![p] = NotUpdated(r.fingerprint)]
                /\ pc' = [pc EXCEPT ![p] = "done"]
                /\ UNCHANGED <<sessionRef, newSessionStarted>>

\* Lines 56-121: the runtime hands a request to the first free invocation
\* slot; the handler runs to its first await: it parses the body, validates
\* and normalizes the fingerprint, and, unless it rejected the request,
\* reads the latest session and picks its branch.
Accept(p, seen, n, keep) ==
    /\ pc[p] = "idle"
    /\ \A q \in Procs : q < p => pc[q] # "idle"
    /\ \E fp \in FingerprintValues, d \in DataValues, a \in ActionValues :
          /\ IF FingerprintError(fp) # ""
             THEN Reject(p, fp)
             ELSE ReadLatest(p, [fingerprint |-> Normalize(fp), data |-> d,
                                 action |-> a])
          /\ fpIn' = [fpIn EXCEPT ![p] = IF keep THEN fp ELSE NoFp]
    /\ pre' = [pre EXCEPT ![p] = seen]
    /\ serial' = (serial /\ Quiet(p))
    /\ nreq' = n
    /\ UNCHANGED <<sessions, clock, writes>>

\* Lines 150-163: the response of the append/start branch.
AppendResponse(started) ==
    [Response(200) EXCEPT
        !.success = TRUE,
        !.newSessionStarted = started,
        !.message = IF started THEN "Started a new session and recorded data."
                    ELSE "Added data to the existing active session."]

\* Lines 123-134, 150-163: start-new.
StartNew(p) ==
    /\ pc[p] = "set"
    /\ clock < MaxClock
    /\ LET now == clock + 1
       IN  /\ sessions' = Append(sessions,
                  NewSession(req[p].fingerprint, req[p].data, now))
           /\ clock' = now
           /\ sessionRef' = [sessionRef EXCEPT ![p] = Len(sessions) + 1]
    /\ writes' = [writes EXCEPT ![p] = @ + 1]
    /\ resp' = [resp EXCEPT ![p] = AppendResponse(newSessionStarted[p])]
    /\ pc' = [pc EXCEPT ![p] = "done"]
    /\ UNCHANGED <<nreq, req, newSessionStarted, pre, fpIn, serial, reads>>

\* Lines 135-163: append to the record read as open.
AppendData(p) ==
    /\ pc[p] = "update"
    /\ clock < MaxClock
    /\ LET now == clock + 1
       IN  /\ sessions' = [sessions EXCEPT ![sessionRef[p]] =
                              Appended(@, req[p].data, now)]
           /\ clock' = now
    /\ writes' = [writes EXCEPT ![p] = @ + 1]
    /\ resp' = [resp EXCEPT ![p] = AppendResponse(newSessionStarted[p])]
    /\ pc' = [pc EXCEPT ![p] = "done"]
    /\ UNCHANGED <<nreq, req, sessionRef, newSessionStarted, pre, fpIn, serial, reads>>

\* Lines 171-189: the close branch's own read and its two rejections.
EndRead(p) ==
    /\ pc[p] = "endRead"
    /\ LET snap == Latest(sessions, req[p].fingerprint)
       IN  IF snap = 0
           THEN /\ resp' = [resp EXCEPT ![p] = NoActiveSession]
                /\ pc' = [pc EXCEPT ![p] = "done"]
                /\ UNCHANGED sessionRef
           ELSE IF HasEnded(sessions[snap])
           THEN /\ resp' = [resp EXCEPT ![p] = SessionAlreadyEnded]
                /\ pc' = [pc EXCEPT ![p] = "done"]
                /\ UNCHANGED sessionRef
           ELSE /\ sessionRef' = [sessionRef EXCEPT ![p] = snap]
                /\ pc' = [pc EXCEPT ![p] = "endUpdate"]
                /\ UNCHANGED resp
    /\ reads' = [reads EXCEPT ![p] = @ + 1]
    /\ UNCHANGED <<sessions, clock, nreq, req, newSessionStarted, pre, fpIn, serial, writes>>

\* Lines 190-194: the close write.
EndUpdate(p) ==
    /\ pc[p] = "endUpdate"
    /\ clock < MaxClock
    /\ LET now == clock + 1
       IN  /\ sessions' = [sessions EXCEPT ![sessionRef[p]] = Ended(@, now)]
           /\ clock' = now
    /\ writes' = [writes EXCEPT ![p] = @ + 1]
    /\ pc' = [pc EXCEPT ![p] = "endGet"]
    /\ UNCHANGED <<nreq, req, sessionRef, newSessionStarted, resp, pre, fpIn, serial,
                   reads>>

\* Lines 195-203: the read-back and the response carrying the record.
EndGet(p) ==
    /\ pc[p] = "endGet"
    /\ resp' = [resp EXCEPT ![p] = SessionEnded(sessions[sessionRef[p]])]
    /\ pc' = [pc EXCEPT ![p] = "done"]
    /\ reads' = [reads EXCEPT ![p] = @ + 1]
    /\ UNCHANGED <<sessions, clock, nreq, req, sessionRef, newSessionStarted,
                   pre, fpIn, serial, writes>>

\* The invocation has returned; the runtime may reuse the slot.
Finish(p) ==
    /\ pc[p] = "done"
    /\ pc' = [pc EXCEPT ![p] = "idle"]
    /\ req' = [req EXCEPT ![p] = NoReq]
    /\ resp' = [resp EXCEPT ![p] = NoResp]
    /\ pre' = [pre EXCEPT ![p] = <<>>]
    /\ fpIn' = [fpIn EXCEPT ![p] = NoFp]
    /\ reads' = [reads EXCEPT ![p] = 0]
    /\ writes' = [writes EXCEPT ![p] = 0]
    /\ sessionRef' = [sessionRef EXCEPT ![p] = 0]
    /\ newSessionStarted' = [newSessionStarted EXCEPT ![p] = FALSE]
    /\ UNCHANGED <<sessions, clock, nreq, serial>>

Step(p) ==
    \/ StartNew(p)
    \/ AppendData(p)
    \/ EndRead(p)
    \/ EndUpdate(p)
    \/ EndGet(p)
    \/ Finish(p)

\* Invocations run in parallel: any of them may take the next step.
Receive(p) == nreq < MaxRequests /\ Accept(p, <<>>, nreq + 1, FALSE)

Next == \E p \in Procs : Receive(p) \/ Step(p)

Spec == Init /\ [][Next]_vars

\* Requests handled one at a time: a request is received only when no other
\* invocation is between its receipt and its return.
ReceiveSeq(p) == Quiet(p) /\ Accept(p, sessions, nreq, TRUE)

NextSeq == \E p \in Procs : ReceiveSeq(p) \/ Step(p)

SpecSeq == Init /\ [][NextSeq]_vars

\* Mutant of Thrown: the failed call is attempted again.
ThrownAndRetried(p) ==
    /\ resp' = [resp EXCEPT ![p] = InternalError]
    /\ pc' = pc

\* Lines 213-222: a store call rejects, the catch block answers 500 and the
\* handler returns.
Thrown(p) ==
    /\ resp' = [resp EXCEPT ![p] = InternalError]
    /\ pc' = [pc EXCEPT ![p] = "done"]

\* Line 99 rejects: the request was valid, nothing has been read.
LatestReadFails(p) ==
    /\ pc[p] = "idle"
    /\ Quiet(p)
    /\ \A q \in Procs : q < p => pc[q] # "idle"
    /\ \E fp \in FingerprintValues, d \in DataValues, a \in ActionValues :
          /\ FingerprintError(fp) = ""
          /\ req' = [req EXCEPT ![p] =
                [fingerprint |-> Normalize(fp), data |-> d, action |-> a]]
          /\ fpIn' = [fpIn EXCEPT ![p] = fp]
    /\ Thrown(p)
    /\ pre' = [pre EXCEPT ![p] = sessions]
    /\ reads' = [reads EXCEPT ![p] = 1]
    /\ UNCHANGED <<sessions, clock, nreq, sessionRef, newSessionStarted, serial, writes>>

\* Line 127 rejects: no document is created.
SetFails(p) ==
    /\ pc[p] = "set"
    /\ Thrown(p)
    /\ UNCHANGED <<sessions, clock, nreq, req, sessionRef, newSessionStarted,
                   pre, fpIn, serial, reads, writes>>

\* Line 138 or 143 rejects: the document is not updated.
UpdateFails(p) ==
    /\ pc[p] = "update"
    /\ Thrown(p)
    /\ UNCHANGED <<sessions, clock, nreq, req, sessionRef, newSessionStarted,
                   pre, fpIn, serial, reads, writes>>

\* Line 171 rejects.
EndReadFails(p) ==
    /\ pc[p] = "endRead"
    /\ Thrown(p)
    /\ reads' = [reads EXCEPT ![p] = @ + 1]
    /\ UNCHANGED <<sessions, clock, nreq, req, sessionRef, newSessionStarted,
                   pre, fpIn, serial, writes>>

\* Line 191 rejects: the document is not updated.
EndUpdateFails(p) ==
    /\ pc[p] = "endUpdate"
    /\ Thrown(p)
    /\ UNCHANGED <<sessions, clock, nreq, req, sessionRef, newSessionStarted,
                   pre, fpIn, serial, reads, writes>>

\* Line 195 rejects, after the close update of line 191 was applied.
EndGetFails(p) ==
    /\ pc[p] = "endGet"
    /\ Thrown(p)
    /\ reads' = [reads EXCEPT ![p] = @ + 1]
    /\ UNCHANGED <<sessions, clock, nreq, req, sessionRef, newSessionStarted,
                   pre, fpIn, serial, writes>>

Fails(p) ==
    \/ LatestReadFails(p)
    \/ SetFails(p)
    \/ UpdateFails(p)
    \/ EndReadFails(p)
    \/ EndUpdateFails(p)
    \/ EndGetFails(p)

\* One invocation at a time, any store call of which may reject.
NextFail == \E p \in Procs : ReceiveSeq(p) \/ Step(p) \/ Fails(p)

SpecFail == Init /\ [][NextFail]_vars

\* Lines 69-92 alone: invocation 1 has received a body with any fingerprint
\* of NormInputs, which it rejects or normalizes, going no further.
InitNorm ==
    /\ sessions = <<>>
    /\ clock = 0
    /\ nreq = 0
    /\ pc = [p \in Procs |-> "idle"]
    /\ req = [p \in Procs |-> NoReq]
    /\ sessionRef = [p \in Procs |-> 0]
    /\ newSessionStarted = [p \in Procs |-> FALSE]
    /\ resp = [p \in Procs |-> NoResp]
    /\ pre = [p \in Procs |-> <<>>]
    /\ \E fp \in NormInputs : fpIn = [p \in Procs |-> IF p = 1 THEN fp ELSE NoFp]
    /\ serial = TRUE
    /\ reads = [p \in Procs |-> 0]
    /\ writes = [p \in Procs |-> 0]

Validate ==
    /\ pc[1] = "idle"
    /\ pc' = [pc EXCEPT ![1] = "done"]
    /\ IF FingerprintError(fpIn[1]) # ""
       THEN /\ resp' = [resp EXCEPT ![1] = FingerprintResponse(fpIn[1])]
            /\ req' = req
       ELSE /\ resp' = resp
            /\ req' = [req EXCEPT ![1] =
                  [NoReq EXCEPT !.fingerprint = Normalize(fpIn[1])]]
    /\ UNCHANGED <<sessions, clock, nreq, sessionRef, newSessionStarted,
                   pre, fpIn, serial, reads, writes>>

NextNorm == Validate

SpecNorm == InitNorm /\ [][NextNorm]_vars


\* ================================================================ claims
\* Vocabulary of the claims.
IsOpen(rec) == rec.endedAt = Null

Fingerprints(store) == { store[i].fingerprint : i \in 1..Len(store) }

OpenRecords(store, fp) == { i \in SessionsOf(store, fp) : IsOpen(store[i]) }

\* p's request passed fingerprint validation and p has returned.
Handled(p) == pc[p] = "done" /\ reads[p] > 0

\* Append-type request: data given, action absent or "append".
AppendRequest(r) == ~Falsy(r.data) /\ r.action \in {Undefined, Str("append")}

EndRequest(r) == r.action = Str("end")

\* Every record of `old` other than record i is the same in `new`, and
\* `new` holds no further record.
OnlyChanged(old, new, i) ==
    /\ Len(new) = Len(old)
    /\ \A j \in 1..Len(old) : j # i => new[j] = old[j]

\* ---------------------------------------------------------------- C1
\* C1: with requests handled one at a time, in every reachable state at
\* most one Session Record of a fingerprint has endedAt = null.
C1_AtMostOneOpen ==
    \A fp \in Fingerprints(sessions) : Cardinality(OpenRecords(sessions, fp)) <= 1

\* A closed record and a later open one of the same fingerprint: sessions
\* were opened, closed and opened again.
C1_Witness ==
    \E i, j \in 1..Len(sessions) :
        /\ sessions[i].fingerprint = sessions[j].fingerprint
        /\ ~IsOpen(sessions[i])
        /\ IsOpen(sessions[j])
        /\ sessions[j].startedAt > sessions[i].endedAt

\* ---------------------------------------------------------------- C2
\* C2: the start-new write is not conditioned on what the store holds when
\* it commits: an invocation that read "no open session" always creates a
\* new open record and answers newSessionStarted = true, also when another
\* invocation has opened a record of the same fingerprint since that read.
C2_StartNewUnconditional ==
    [][\A p \in Procs :
          (pc[p] = "set" /\ pc'[p] # "set") =>
             /\ Len(sessions') = Len(sessions) + 1
             /\ SubSeq(sessions', 1, Len(sessions)) = sessions
             /\ IsOpen(sessions'[Len(sessions')])
             /\ sessions'[Len(sessions')].fingerprint = req[p].fingerprint
             /\ resp'[p].statusCode = 200
             /\ resp'[p].newSessionStarted]_vars

\* Two invocations have both answered newSessionStarted = true and two
\* records of the one fingerprint are open.
C2_TwoOpen ==
    \E p, q \in Procs :
        /\ p # q
        /\ pc[p] = "done" /\ resp[p].statusCode = 200 /\ resp[p].newSessionStarted
        /\ pc[q] = "done" /\ resp[q].statusCode = 200 /\ resp[q].newSessionStarted
        /\ req[p].fingerprint = req[q].fingerprint
        /\ Cardinality(OpenRecords(sessions, req[p].fingerprint)) = 2

C4_Original ==
    \A p \in Procs :
        LET fp == req[p].fingerprint
            i == Latest(pre[p], fp)
        IN  (/\ Handled(p)
             /\ AppendRequest(req[p])
             /\ req[p].data # Arr(<<>>)
             /\ i # 0
             /\ IsOpen(pre[p][i])) =>
                /\ resp[p].statusCode = 200
                /\ ~resp[p].newSessionStarted
                /\ OnlyChanged(pre[p], sessions, i)
                /\ sessions[i].startedAt = pre[p][i].startedAt
                /\ sessions[i].lastActivity > pre[p][i].lastActivity
                /\ Len(sessions[i].dataBatches) > Len(pre[p][i].dataBatches)

\* ---------------------------------------------------------------- C5
\* C5: with requests handled one at a time, an end request on a fingerprint
\* whose latest record is open sets that record's endedAt and lastActivity
\* and answers 200 with the full record; an end request that finds the
\* latest record closed answers 400 SessionAlreadyEnded and changes nothing.
C5_CloseOnce ==
    \A p \in Procs :
        LET fp == req[p].fingerprint
            i == Latest(pre[p], fp)
        IN  (Handled(p) /\ EndRequest(req[p]) /\ i # 0) =>
                IF IsOpen(pre[p][i])
                THEN /\ resp[p].statusCode = 200
                     /\ resp[p].session = <<sessions[i]>>
                     /\ OnlyChanged(pre[p], sessions, i)
                     /\ sessions[i].endedAt # Null
                     /\ sessions[i].endedAt = sessions[i].lastActivity
                     /\ sessions[i].endedAt > pre[p][i].lastActivity
                     /\ sessions[i].startedAt = pre[p][i].startedAt
                     /\ sessions[i].dataBatches = pre[p][i].dataBatches
                     /\ sessions[i].fingerprint = fp
                ELSE /\ resp[p].statusCode = 400
                     /\ resp[p].error = "Session has already ended."
                     /\ sessions = pre[p]

\* A second end request has been answered, the record being closed already.
C5_Witness ==
    \E p \in Procs :
        /\ Handled(p)
        /\ EndRequest(req[p])
        /\ Latest(pre[p], req[p].fingerprint) # 0
        /\ ~IsOpen(pre[p][Latest(pre[p], req[p].fingerprint)])
        /\ resp[p].statusCode = 400

\* ---------------------------------------------------------------- C6
\* The close write of invocation p (line 191) happens in this step.
CloseWrite(p) == pc[p] = "endUpdate" /\ pc'[p] = "endGet"

\* C6 (as claimed): in every interleaving endedAt of a record is assigned
\* at most once: every close write lands on a record whose endedAt is null.
C6_Original ==
    [][\A p \in Procs :
          CloseWrite(p) => IsOpen(sessions[sessionRef[p]])]_vars

\* C6 (amended): as long as requests are handled one at a time, every close
\* write lands on a record whose endedAt is null and changes only endedAt
\* and lastActivity of that record, and an end request that finds it closed
\* is rejected with SessionAlreadyEnded.
C6_Amended ==
    [][serial =>
         \A p \in Procs :
            /\ CloseWrite(p) =>
                  /\ IsOpen(sessions[sessionRef[p]])
                  /\ OnlyChanged(sessions, sessions', sessionRef[p])
                  /\ ~IsOpen(sessions'[sessionRef[p]])
            /\ (/\ pc[p] = "endRead"
                /\ pc'[p] # "endRead"
                /\ Latest(sessions, req[p].fingerprint) # 0
                /\ ~IsOpen(sessions[Latest(sessions, req[p].fingerprint)])) =>
                  /\ pc'[p] = "done"
                  /\ resp'[p].statusCode = 400
                  /\ resp'[p].error = "Session has already ended."
                  /\ sessions' = sessions]_vars

\* Handled one at a time, an end request has been rejected as already ended.
C6_Witness ==
    /\ serial
    /\ \E p \in Procs :
          /\ Handled(p)
          /\ EndRequest(req[p])
          /\ resp[p].error = "Session has already ended."

\* ---------------------------------------------------------------- C7
\* C7 (as claimed): in every interleaving a record whose endedAt is
\* non-null is never modified again.
C7_Original ==
    [][\A i \in 1..Len(sessions) :
          ~IsOpen(sessions[i]) => sessions'[i] = sessions[i]]_vars

\* C7 (amended): in every interleaving no write changes startedAt of a
\* closed record or reopens it, and as long as requests are handled one at
\* a time a closed record is never modified at all.
C7_Amended ==
    [][\A i \in 1..Len(sessions) :
          ~IsOpen(sessions[i]) =>
             /\ Len(sessions') >= i
             /\ sessions'[i].startedAt = sessions[i].startedAt
             /\ sessions'[i].fingerprint = sessions[i].fingerprint
             /\ ~IsOpen(sessions'[i])
             /\ serial => sessions'[i] = sessions[i]]_vars

\* Handled one at a time, the store has been written after a record closed.
C7_Witness ==
    /\ serial
    /\ \E i \in 1..Len(sessions) :
          ~IsOpen(sessions[i]) /\ clock > sessions[i].endedAt

\* ---------------------------------------------------------------- C8
\* C8: an end request for a fingerprint with no Session Record answers 404
\* NoActiveSession, writes nothing and creates no record.
C8_EndWithoutSession ==
    \A p \in Procs :
        (/\ Handled(p)
         /\ EndRequest(req[p])
         /\ SessionsOf(pre[p], req[p].fingerprint) = {}) =>
            /\ resp[p].statusCode = 404
            /\ resp[p].error = "No active session found for this fingerprint."
            /\ writes[p] = 0
            /\ sessions = pre[p]

\* An end request carrying data has been answered for an empty fingerprint.
C8_Witness ==
    \E p \in Procs :
        /\ Handled(p)
        /\ EndRequest(req[p])
        /\ ~Falsy(req[p].data)
        /\ SessionsOf(pre[p], req[p].fingerprint) = {}

\* ---------------------------------------------------------------- C9
\* The branch invocation p has entered, read off its position and response.
BranchTaken(p) ==
    IF \/ pc[p] \in {"set", "update"}
       \/ resp[p].success
       \/ resp[p].statusCode = 500
    THEN "append"
    ELSE IF \/ pc[p] \in {"endRead", "endUpdate", "endGet"}
            \/ resp[p].statusCode \in {400, 404}
            \/ resp[p].session # <<>>
    THEN "close"
    ELSE "noop"

\* The branch the claim assigns: data counts as present whenever the body
\* supplies a value, falsy values included.
ClaimedBranch(r) ==
    IF r.data # Undefined /\ r.action \in {Undefined, Str("append")} THEN "append"
    ELSE IF r.action = Str("end") THEN "close"
    ELSE "noop"

\* C9 (as claimed): for every request that passes fingerprint validation
\* the branch taken is the one the claim assigns to (data, action).
C9_Original ==
    \A p \in Procs : reads[p] > 0 => BranchTaken(p) = ClaimedBranch(req[p])

\* ---------------------------------------------------------------- C10
\* Neither data nor a recognized action: not an end request and not an
\* append with data.
NoOpRequest(r) == r.action # Str("end") /\ ~AppendRequest(r)

\* C10: such a request answers 200 with the no-op message and the
\* normalized fingerprint and performs no store write: every record and
\* the number of records are as before.
C10_NoOp ==
    \A p \in Procs :
        (Handled(p) /\ NoOpRequest(req[p])) =>
            /\ resp[p].statusCode = 200
            /\ resp[p].message = "Session not updated."
            /\ resp[p].fingerprint = req[p].fingerprint
            /\ resp[p].fingerprint = Trim(resp[p].fingerprint)
            /\ resp[p].fingerprint # <<>>
            /\ writes[p] = 0
            /\ sessions = pre[p]

\* A no-op request has been answered while the store held a record.
C10_Witness ==
    \E p \in Procs :
        /\ Handled(p)
        /\ NoOpRequest(req[p])
        /\ req[p].action = Str("pause")
        /\ Len(sessions) > 0


\* ---------------------------------------------------------------- C11
\* A fingerprint the claim calls invalid: neither a string nor a number, or
\* a string with no character other than whitespace.
InvalidFingerprint(fp) ==
    \/ fp.type \notin {"string", "number"}
    \/ fp.type = "string" /\ \A i \in 1..Len(fp.chars) : fp.chars[i] \in Whitespace

\* C11: a request with an invalid fingerprint is answered 400 with no store
\* read and no store write, whatever its data and action.
C11_RejectedBeforeStore ==
    \A p \in Procs :
        (fpIn[p] # NoFp /\ InvalidFingerprint(fpIn[p])) =>
            /\ pc[p] = "done"
            /\ resp[p].statusCode = 400
            /\ resp[p].error \in {"Fingerprint must be a string or number.",
                                  "Fingerprint missing."}
            /\ reads[p] = 0
            /\ writes[p] = 0
            /\ sessions = pre[p]

\* A whitespace-only fingerprint has been answered while the store held a
\* record.
C11_Witness ==
    \E p \in Procs :
        /\ fpIn[p] = FpString(<<" ", "\t">>)
        /\ pc[p] = "done"
        /\ Len(sessions) > 0

\* ---------------------------------------------------------------- C12
NotSpace(c) == c \notin Whitespace

\* Whitespace occurs in s only before its first and after its last other
\* character.
Surrounded(s) ==
    \A i, j, k \in 1..Len(s) :
        (i < j /\ j < k /\ NotSpace(s[i]) /\ NotSpace(s[k])) => NotSpace(s[j])

DigitValue(c) == CASE c = "0" -> 0 [] c = "1" -> 1 [] c = "2" -> 2 [] c = "3" -> 3
                   [] c = "4" -> 4 [] c = "5" -> 5 [] c = "6" -> 6 [] c = "7" -> 7
                   [] c = "8" -> 8 [] c = "9" -> 9

RECURSIVE DecimalValue(_)
DecimalValue(s) ==
    IF s = <<>> THEN 0
    ELSE 10 * DecimalValue(SubSeq(s, 1, Len(s) - 1)) + DigitValue(s[Len(s)])

\* s is the decimal numeral of the natural number n, without leading zeros.
IsNumeral(s, n) ==
    /\ s # <<>>
    /\ \A i \in 1..Len(s) :
          s[i] \in {"0", "1", "2", "3", "4", "5", "6", "7", "8", "9"}
    /\ Len(s) = 1 \/ s[1] # "0"
    /\ DecimalValue(s) = n

\* s is the decimal string of the integer n.
IsDecimalOf(s, n) ==
    IF n < 0 THEN s # <<>> /\ s[1] = "-" /\ IsNumeral(Tail(s), 0 - n)
    ELSE IsNumeral(s, n)

\* g is the numeric string of n, with or without surrounding whitespace.
NumericStringOf(g, n) ==
    /\ g.type = "string"
    /\ Surrounded(g.chars)
    /\ IsDecimalOf(SelectSeq(g.chars, NotSpace), n)

Accepted == pc[1] = "done" /\ resp[1].statusCode # 400

Key42 == <<"4", "2">>

Click == <<Str("click")>>

ClickScrollHover == <<Str("click"), Str("scroll"), Str("hover")>>

\* The store holds exactly one record, with these dataBatches.
OneRecord(store, batches) == Len(store) = 1 /\ store[1].dataBatches = batches

IsPrefix(a, b) == Len(a) <= Len(b) /\ SubSeq(b, 1, Len(a)) = a

\* p's step is the append write to the record it read as open.
AppendWrite(p) == pc[p] = "update" /\ pc'[p] = "done"

\* C14 (as claimed): in every interleaving each store write leaves the
\* previous dataBatches of every record as a prefix of the new one, and the
\* append write of a request leaves the items of the request, in the order
\* given, after all the items the record held before.
C14_Original ==
    [][/\ \A i \in 1..Len(sessions) :
             /\ i <= Len(sessions')
             /\ IsPrefix(sessions[i].dataBatches, sessions'[i].dataBatches)
       /\ \A p \in Procs :
             AppendWrite(p) =>
                sessions'[sessionRef[p]].dataBatches =
                    sessions[sessionRef[p]].dataBatches \o UnionArgs(req[p].data)]_vars


\* ---------------------------------------------------------------- C15
Answered500(p) == resp[p].statusCode = 500

\* C15 (as claimed): a request that answers 500 has left every Session
\* Record as it was before the request began.
C15_Original ==
    \A p \in Procs : Answered500(p) => sessions = pre[p]

\* C15 (amended): a request that answers 500 has returned without another
\* store call and has left every record as it was, unless the call that
\* failed is the read-back of line 195: then the close write of that
\* request stands, and the record it read as open is closed, with nothing
\* else changed.
C15_Amended ==
    \A p \in Procs :
        Answered500(p) =>
            /\ pc[p] = "done"
            /\ resp[p] = InternalError
            /\ writes[p] <= 1
            /\ writes[p] = 0 => sessions = pre[p]
            /\ writes[p] = 1 =>
                  LET i == sessionRef[p]
                  IN  /\ EndRequest(req[p])
                      /\ reads[p] = 3
                      /\ i \in 1..Len(pre[p])
                      /\ OnlyChanged(pre[p], sessions, i)
                      /\ IsOpen(pre[p][i])
                      /\ ~IsOpen(sessions[i])
                      /\ sessions[i] = [pre[p][i] EXCEPT
                             !.endedAt = sessions[i].endedAt,
                             !.lastActivity = sessions[i].endedAt]

\* An end request has answered 500 after its close write: the read-back
\* failed and the record is closed.
C15_Witness ==
    \E p \in Procs :
        /\ Answered500(p)
        /\ writes[p] = 1
        /\ ~IsOpen(sessions[sessionRef[p]])
        /\ IsOpen(pre[p][sessionRef[p]])


\* ---------------------------------------------------------------- C16
\* p's step is the start-new write.
StartWrite(p) == pc[p] = "set" /\ pc'[p] = "done"

\* C16: in every interleaving, no step changes startedAt of a record that
\* exists, no record disappears, and a record comes into being only by a
\* start-new write, which stamps its startedAt with the time of that write.
C16_StartedAtOnce ==
    [][/\ \A i \in 1..Len(sessions) :
             /\ i <= Len(sessions')
             /\ sessions'[i].startedAt = sessions[i].startedAt
       /\ Len(sessions') # Len(sessions) =>
             /\ Len(sessions') = Len(sessions) + 1
             /\ \E p \in Procs : StartWrite(p)
             /\ sessions'[Len(sessions')].startedAt = clock'
             /\ clock' > clock]_vars

\* A record has been appended to and then closed, by writes later than the
\* one that created it.
C16_Witness ==
    \E i \in 1..Len(sessions) :
        /\ sessions[i].dataBatches = ClickScrollHover
        /\ ~IsOpen(sessions[i])
        /\ sessions[i].startedAt + 2 <= sessions[i].endedAt


\* ---------------------------------------------------------------- C17
\* C17: in every interleaving an invocation performs at most one store
\* write: exactly one when it answers a successful start-new, append or
\* close, and none when it rejects the request, answers 404 or 400 to an
\* end request, or answers the no-op; before it returns it has written only
\* if it is at the read-back that follows the close write.
C17_AtMostOneWrite ==
    \A p \in Procs :
        /\ writes[p] <= 1
        /\ pc[p] \in {"set", "update", "endRead", "endUpdate"} => writes[p] = 0
        /\ pc[p] = "endGet" => writes[p] = 1
        /\ pc[p] = "done" =>
              /\ resp[p].success => writes[p] = 1
              /\ resp[p].message = "Session ended. Data stored in Firestore."
                    => writes[p] = 1
              /\ resp[p].statusCode \in {400, 404, 500} => writes[p] = 0
              /\ resp[p].message = "Session not updated." => writes[p] = 0
              /\ (Handled(p) /\ NoOpRequest(req[p])) => writes[p] = 0
              /\ writes[p] = 1 =>
                    /\ resp[p].statusCode = 200
                    /\ sessionRef[p] \in 1..Len(sessions)
                    /\ AppendRequest(req[p]) \/ EndRequest(req[p])

\* One invocation has answered a successful close and another a 400 to its
\* end request: the first wrote once, the second not at all.
C17_Witness ==
    \E p, q \in Procs :
        /\ pc[p] = "done" /\ pc[q] = "done"
        /\ resp[p].message = "Session ended. Data stored in Firestore."
        /\ writes[p] = 1
        /\ resp[q] = SessionAlreadyEnded
        /\ writes[q] = 0


\* ---------------------------------------------------------------- C18
\* Step of p that changes the store.
Writes(p) == writes'[p] = writes[p] + 1

Targets(p, i) == sessionRef[p] = i /\ pc[p] \in {"update", "endUpdate"}

\* Record i is not the most recent record of its fingerprint.
Superseded(i) ==
    \E j \in 1..Len(sessions) :
        /\ sessions[j].fingerprint = sessions[i].fingerprint
        /\ sessions[j].startedAt > sessions[i].startedAt

\* An open record that is not the most recent of its fingerprint and that
\* no invocation picked while it was.
Orphan(i) ==
    /\ i \in 1..Len(sessions)
    /\ IsOpen(sessions[i])
    /\ Superseded(i)
    /\ \A p \in Procs : ~Targets(p, i)

\* C19: in every interleaving, the record an invocation picks for its
\* append or close is one with the greatest startedAt among the records of
\* the fingerprint when it reads, its write changes that record only, and
\* an orphan is changed by no step and is an orphan in the next state too.
C19_OnlyLatestWritten ==
    [][/\ \A p \in Procs :
             /\ (~Targets(p, sessionRef[p]) /\ pc'[p] \in {"update", "endUpdate"}) =>
                   /\ sessionRef'[p] \in 1..Len(sessions)
                   /\ sessions[sessionRef'[p]].fingerprint = req'[p].fingerprint
                   /\ ~Superseded(sessionRef'[p])
             /\ (Targets(p, sessionRef[p]) /\ pc'[p] # pc[p]) =>
                   OnlyChanged(sessions, sessions', sessionRef[p])
       /\ \A i \in 1..Len(sessions) :
             Orphan(i) => (sessions'[i] = sessions[i] /\ Orphan(i)')]_vars

\* After the double start-new an end request has closed the newer record:
\* the older one is an orphan, still open.
C19_Witness ==
    \E i, j \in 1..Len(sessions) :
        /\ Orphan(i)
        /\ sessions[j].fingerprint = sessions[i].fingerprint
        /\ sessions[j].startedAt > sessions[i].startedAt
        /\ ~IsOpen(sessions[j])


\* ---------------------------------------------------------------- C20
\* C20: in every reachable state, under any interleaving, every record has
\* startedAt <= lastActivity and every closed record startedAt <= endedAt;
\* and as long as requests have been handled one at a time every closed
\* record has lastActivity = endedAt.
C20_TimestampsOrdered ==
    \A i \in 1..Len(sessions) :
        /\ sessions[i].startedAt <= sessions[i].lastActivity
        /\ ~IsOpen(sessions[i]) =>
              /\ sessions[i].startedAt <= sessions[i].endedAt
              /\ sessions[i].endedAt <= sessions[i].lastActivity
              /\ serial => sessions[i].lastActivity = sessions[i].endedAt

\* Requests were handled one at a time, and a record that was appended to
\* is closed, later than it was started.
C20_Witness ==
    /\ serial
    /\ \E i \in 1..Len(sessions) :
          /\ ~IsOpen(sessions[i])
          /\ sessions[i].dataBatches = ClickScrollHover
          /\ sessions[i].startedAt < sessions[i].endedAt

====
